---- MODULE Spec2Model ----
(***************************************************************************)
(* Model of the Boss inline-completion provider                            *)
(* (LLMInlineCompletionProvider and activate).  Two versions of the        *)
(* provider are in the repository: src/src/extension.ts ("current") and    *)
(* src/unnamed/part_000 ("legacy").  The variable `variant` fixes which    *)
(* one a behaviour runs; everything the two share is modelled once.        *)
(*                                                                         *)
(* Strings are sequences of one-character strings, positions and line      *)
(* indices are zero-based as in the editor API.  The host's sinks (status  *)
(* bar, output channel, notifications) are total: they never throw.        *)
(***************************************************************************)
EXTENDS Integers, Sequences, FiniteSets, TLC

VARIABLES
    variant,          \* which provider source runs: "current" or "legacy"
    activation,       \* position of activate(): constructed/checking/registered/deactivated
    config,           \* the OllamaConfig object shared by activate and the provider
    statusBarItem,    \* [text, tooltip] as written by updateStatusBar
    debounceTimer,    \* the handle field: 0 = undefined, else the request that set it
    lastPosition,     \* the lastPosition field (NoPosition = undefined)
    timers,           \* handles of timeouts the event loop still holds (not fired, not cleared)
    req,              \* per call of provideInlineCompletionItems: its closure and promise
                      \* (documentAtFire: what the document was when its timeout fired)
    document,         \* the live TextDocument: a sequence of lines
    edits,            \* number of document edits so far
    configChanges,    \* number of configuration changes so far
    standaloneChecks, \* per host: availability checks of the configuration watcher in flight
    lastCheck,        \* the checkOllamaStatus call that returned in the step just taken, if any
    lastGenerate,     \* the /api/generate answer handled in the step just taken, if any
    notifications,    \* per owner (0 = activate/watcher, r = request r): showErrorMessage calls
    outputChannel     \* per owner: the labels of the lines appended by log

vars == <<variant, activation, config, statusBarItem, debounceTimer, lastPosition,
          timers, req, document, edits, configChanges, standaloneChecks, lastCheck,
          lastGenerate, notifications, outputChannel>>

----------------------------------------------------------------------------
(* Bounds of the model *)

MaxRequests == 2
\* Under SpecWatcher: requests and configuration changes together
MaxHostEvents == 2
MaxConfigChanges == 1
\* Under SpecCancel: requests and cancellations together
MaxCancelEvents == 2
MaxEdits == 1

(* Program constants *)

debounceDelay == 500
ContextLines == 10
MinChars == 5

TickMs == debounceDelay \div 2

Requests == 1..MaxRequests
Owners == 0..MaxRequests

----------------------------------------------------------------------------
(* Strings *)

Whitespace == {" ", "\t", "\n"}
\* A string literal cannot hold the backtick: it is written as a named character
Backtick == "BACKTICK"
Quotes == {Backtick, "'", "\""}

RECURSIVE dropLeading(_, _)
dropLeading(s, chars) ==
    IF s # <<>> /\ Head(s) \in chars THEN dropLeading(Tail(s), chars) ELSE s

RECURSIVE dropTrailing(_, _)
dropTrailing(s, chars) ==
    IF s # <<>> /\ s[Len(s)] \in chars
    THEN dropTrailing(SubSeq(s, 1, Len(s) - 1), chars)
    ELSE s

trim(s) == dropTrailing(dropLeading(s, Whitespace), Whitespace)

\* String.prototype.substring(a, b) for 0 <= a <= b
substring(s, a, b) ==
    LET hi == IF b > Len(s) THEN Len(s) ELSE b
        lo == IF a > hi THEN hi ELSE a
    IN  SubSeq(s, lo + 1, hi)

startsWith(s, prefix) ==
    Len(prefix) <= Len(s) /\ SubSeq(s, 1, Len(prefix)) = prefix

\* s.split('\n')[0]
RECURSIVE firstLine(_)
firstLine(s) ==
    IF s = <<>> \/ Head(s) = "\n" THEN <<>> ELSE <<Head(s)>> \o firstLine(Tail(s))

\* lines.join('\n')
RECURSIVE join(_)
join(lines) ==
    IF lines = <<>> THEN <<>>
    ELSE IF Len(lines) = 1 THEN lines[1]
    ELSE lines[1] \o <<"\n">> \o join(Tail(lines))

NonWhitespaceCount(s) == Cardinality({i \in 1..Len(s) : s[i] \notin Whitespace})

----------------------------------------------------------------------------
(* The inputs the host and the service supply *)

Line0 == <<"a", "b", "c">>
Line1 == <<" ", " ", "a", " ", "b", " ", "c", " ">>
Line2 == <<"f", "o", "o", "(", "a", ",", "b">>
EditedLine == <<"b", "a", "r", "(", "x", ",", "y", ")">>

InitialDocument == <<Line0, Line1, Line2>>

Pos(l, c) == [line |-> l, character |-> c]
NoPosition == Pos(-1, -1)
Cursors == {Pos(0, 3), Pos(1, 7), Pos(2, 7)}

LanguageId == "typescript"

Hosts == {"http://localhost:11434", "http://gpu:11434"}
Models == {"deepseek-r1:1.5b", "coder:7b"}
DefaultConfig == [host |-> "http://localhost:11434", model |-> "deepseek-r1:1.5b"]
Configs == {DefaultConfig, [host |-> "http://gpu:11434", model |-> "coder:7b"]}

\* What GET /api/tags can answer
TagsResponses ==
    {[kind |-> k, hasModels |-> FALSE, models |-> {}] :
        k \in {"transport_error", "http_error", "bad_json", "ok"}}
    \cup {[kind |-> "ok", hasModels |-> TRUE, models |-> ms] : ms \in SUBSET Models}

\* What POST /api/generate can answer
RawOutputs ==
    { <<>>,
      <<" ">>,
      <<" ", Backtick, ")", ";", Backtick, "\n">>,
      Line2 \o <<" ", ")">> }

GenerateResponses ==
    {[kind |-> k, statusText |-> "", body |-> <<>>, hasResponse |-> FALSE, response |-> <<>>] :
        k \in {"transport_error", "bad_json", "ok"}}
    \cup {[kind |-> "http_error", statusText |-> st,
           body |-> <<"model crashed">>, hasResponse |-> FALSE, response |-> <<>>] :
            st \in {"Internal Server Error"}}
    \cup {[kind |-> "ok", statusText |-> "", body |-> <<>>, hasResponse |-> TRUE, response |-> o] :
            o \in RawOutputs}

----------------------------------------------------------------------------
(* Values of a request *)

Pending == [kind |-> "pending", insertText |-> <<>>, start |-> NoPosition, end |-> NoPosition]
Undefined == [kind |-> "undefined", insertText |-> <<>>, start |-> NoPosition, end |-> NoPosition]
Item(text, s, e) == [kind |-> "items", insertText |-> text, start |-> s, end |-> e]

IdleRequest ==
    [pc |-> "idle", position |-> NoPosition, lineText |-> <<>>, token |-> FALSE,
     elapsed |-> 0, result |-> Pending,
     tagsCalls |-> <<>>, isOllamaReady |-> "unset", generateCalls |-> <<>>,
     documentAtFire |-> <<>>]

NoCheck ==
    [owner |-> 0, response |-> [kind |-> "none", hasModels |-> FALSE, models |-> {}],
     model |-> "", result |-> FALSE, status |-> "", notified |-> 0]

NoGenerate ==
    [owner |-> 0,
     response |-> [kind |-> "none", statusText |-> "", body |-> <<>>,
                   hasResponse |-> FALSE, response |-> <<>>]]

\* A promise settles once: a later resolve is a no-op
resolve(current, value) == IF current.kind = "pending" THEN value ELSE current

----------------------------------------------------------------------------
(* Sinks *)

updateStatusBar(cfg, text) == [text |-> text, tooltip |-> cfg.model]

showErrorMessage(notes, owner, message) == [notes EXCEPT ![owner] = Append(@, message)]

RECURSIVE log(_, _, _)
log(channel, owner, labels) ==
    IF labels = <<>> THEN channel
    ELSE log([channel EXCEPT ![owner] = Append(@, Head(labels))], owner, Tail(labels))

status == statusBarItem.text

----------------------------------------------------------------------------
(* checkOllamaStatus *)

\* Mutant: the check is content with any model the service lists
modelExistsAny(response, cfg) == response.hasModels /\ response.models # {}

modelExists(response, cfg) == response.hasModels /\ cfg.model \in response.models

\* Mutant: the catch block of the check leaves the status bar as it is
checkOutcomeCatchSilent(response, cfg) ==
    IF response.kind # "ok" THEN "checking..."
    ELSE IF ~modelExists(response, cfg) THEN "model not found"
    ELSE "ready"

\* The status the check ends in; it returns true exactly for "ready"
checkOutcome(response, cfg) ==
    IF response.kind # "ok" THEN "offline"
    ELSE IF ~modelExists(response, cfg) THEN "model not found"
    ELSE "ready"

\* The notifications of one check, in order
checkMessages(outcome, cfg) ==
    IF outcome = "model not found"
    THEN << <<"Model ", cfg.model, " not found. Please run: ollama pull ", cfg.model>> >>
    ELSE IF outcome = "offline"
    THEN << <<"Ollama service not available at ", cfg.host,
              ". Please make sure Ollama is running.">> >>
    ELSE <<>>

RECURSIVE showAll(_, _, _)
showAll(notes, owner, messages) ==
    IF messages = <<>> THEN notes
    ELSE showAll(showErrorMessage(notes, owner, Head(messages)), owner, Tail(messages))

\* The part of checkOllamaStatus that runs once the tags request has answered
checkOllamaStatus(owner, response) ==
    LET outcome == checkOutcome(response, config) IN
    /\ statusBarItem' = updateStatusBar(config, outcome)
    /\ notifications' = showAll(notifications, owner, checkMessages(outcome, config))
    /\ lastCheck' = [owner |-> owner, response |-> response, model |-> config.model,
                     result |-> (outcome = "ready"), status |-> outcome,
                     notified |-> Len(notifications'[owner]) - Len(notifications[owner])]

----------------------------------------------------------------------------
(* provideInlineCompletionItems: the length guard and the debounce *)

textBeforeCursor(lineText, position) == substring(lineText, 0, position.character)

tooShort(v, lineText, position) ==
    IF v = "current"
    THEN Len(lineText) < MinChars
    ELSE Len(trim(textBeforeCursor(lineText, position))) < MinChars

\* Mutant: the pending timeout is not cleared
clearTimeoutForgotten(pending, handle) == pending

clearTimeout(pending, handle) == pending \ {handle}

\* Mutant: the timeout is set without a delay
timerDueAtOnce(elapsed) == TRUE

\* setTimeout(callback, debounceDelay): the callback runs no earlier than the delay
timerDue(elapsed) == elapsed >= debounceDelay

\* Mutant: the positions are compared by object identity, which never holds
samePositionByIdentity(last, position) == FALSE

samePosition(last, position) ==
    /\ last # NoPosition
    /\ last.line = position.line
    /\ last.character = position.character

\* A continuation of an await that has already settled runs before any other task
MicrotaskPending == \E r \in Requests : req[r].pc = "ready"

called == Cardinality({r \in Requests : req[r].pc # "idle"})

cancelled == Cardinality({r \in Requests : req[r].token})

----------------------------------------------------------------------------
(* provideInlineCompletionItems: context, prompt and suggestion *)

Max(a, b) == IF a > b THEN a ELSE b
Min(a, b) == IF a < b THEN a ELSE b

precedingLines(doc, line) ==
    LET startLine == Max(0, line - ContextLines)
    IN  [i \in 1..(line - startLine) |-> doc[startLine + i]]

followingLines(doc, line) ==
    LET endLine == Min(Len(doc) - 1, line + ContextLines)
    IN  [i \in 1..(endLine - line) |-> doc[line + 1 + i]]

generateCompletionPrompt(languageId, precedingText, currentLine, followingText) ==
    <<"[INST]You are an expert code completion assistant. Given this ", languageId,
      " code:\n\n">>
    \o precedingText \o <<"\n">> \o currentLine \o <<"\n">> \o followingText
    \o <<"\n\nComplete this line of code to the best of your ability. Output a complete syntatically correct line of code.\nOnly output the completion, no explanations.[/INST]">>

legacyPrompt(languageId, precedingText, beforeCursor) ==
    <<"[INST]You are a code completion assistant. Given this ", languageId, " code:\n\n">>
    \o precedingText \o <<"\n">> \o beforeCursor
    \o <<"\n\nComplete this line of code. Only output the completion, no explanations.[/INST]">>

buildPrompt(v, doc, lineText, position) ==
    IF v = "current"
    THEN generateCompletionPrompt(LanguageId, join(precedingLines(doc, position.line)),
                                  lineText, join(followingLines(doc, position.line)))
    ELSE legacyPrompt(LanguageId, join(precedingLines(doc, position.line)),
                      textBeforeCursor(lineText, position))

\* .replace(/^[`'"]+|[`'"]+$/g, '')
stripQuotes(s) == dropTrailing(dropLeading(s, Quotes), Quotes)

removeEcho(s, beforeCursor) ==
    IF startsWith(s, beforeCursor) THEN SubSeq(s, Len(beforeCursor) + 1, Len(s)) ELSE s

\* The legacy clean-up of a raw suggestion that is non-empty after the first trim
cleanSuggestion(raw, beforeCursor) ==
    removeEcho(trim(firstLine(stripQuotes(trim(raw)))), beforeCursor)

completionRange(v, position, suggestion) ==
    IF v = "current"
    THEN [start |-> Pos(position.line, 0), end |-> Pos(position.line, Len(suggestion))]
    ELSE [start |-> position, end |-> position]

\* The text the callback ends with for a raw answer; empty: "no suggestion"
suggestionText(v, raw, beforeCursor) ==
    IF v = "current" THEN raw
    ELSE IF trim(raw) = <<>> THEN <<>>
    ELSE cleanSuggestion(trim(raw), beforeCursor)

\* What the request resolves to when /api/generate answered with a parseable body
completionResult(v, response, lineText, position) ==
    LET suggestion == IF response.hasResponse
                      THEN suggestionText(v, response.response,
                                          textBeforeCursor(lineText, position))
                      ELSE <<>>
        range == completionRange(v, position, suggestion)
    IN  IF suggestion # <<>>
        THEN Item(suggestion, range.start, range.end)
        ELSE Undefined

completionLogs(v, response) ==
    IF v = "legacy" /\ response.hasResponse /\ trim(response.response) # <<>>
    THEN <<"Raw suggestion", "Cleaned suggestion">>
    ELSE <<"Raw suggestion">>

\* Mutant: the error carries the status text alone
errorMessageWithoutBody(response) ==
    IF response.kind = "http_error"
    THEN <<"Ollama API error: ", response.statusText>>
    ELSE <<"fetch failed">>

\* error.message of what the try block threw
errorMessage(response) ==
    IF response.kind = "http_error"
    THEN <<"Ollama API error: ", response.statusText, ". ">> \o response.body
    ELSE IF response.kind = "bad_json" THEN <<"Unexpected end of JSON input">>
    ELSE <<"fetch failed">>

generateFailed(response) == response.kind # "ok"

----------------------------------------------------------------------------
(* The state after construction of the provider (activate, up to its first await) *)

Init ==
    /\ variant \in {"current", "legacy"}
    /\ activation = "constructed"
    /\ config = DefaultConfig
    /\ statusBarItem = updateStatusBar(DefaultConfig, "starting...")
    /\ debounceTimer = 0
    /\ lastPosition = NoPosition
    /\ timers = {}
    /\ req = [r \in Requests |-> IdleRequest]
    /\ document = InitialDocument
    /\ edits = 0
    /\ configChanges = 0
    /\ standaloneChecks = [h \in Hosts |-> 0]
    /\ lastCheck = NoCheck
    /\ lastGenerate = NoGenerate
    /\ notifications = [o \in Owners |-> <<>>]
    /\ outputChannel = [o \in Owners |-> <<>>]

----------------------------------------------------------------------------
(* activate: the initial status check, then the registration *)

activateCheck ==
    /\ activation = "constructed"
    /\ activation' = "checking"
    /\ statusBarItem' = updateStatusBar(config, "checking...")
    /\ lastCheck' = NoCheck
    /\ lastGenerate' = NoGenerate
    /\ UNCHANGED <<variant, config, debounceTimer, lastPosition, timers, req, document,
                   edits, configChanges, standaloneChecks, notifications,
                   outputChannel>>

activateRegister(response) ==
    /\ activation = "checking"
    /\ lastGenerate' = NoGenerate
    /\ checkOllamaStatus(0, response)
    /\ activation' = "registered"
    /\ UNCHANGED <<variant, config, debounceTimer, lastPosition, timers, req, document,
                   edits, configChanges, standaloneChecks, outputChannel>>

(* The configuration watcher: replace host and model, then check again *)

onDidChangeConfiguration(cfg) ==
    /\ activation = "registered"
    /\ ~MicrotaskPending
    /\ configChanges < MaxConfigChanges
    /\ cfg # config
    /\ config' = cfg
    /\ configChanges' = configChanges + 1
    /\ statusBarItem' = updateStatusBar(cfg, "checking...")
    /\ standaloneChecks' = [standaloneChecks EXCEPT ![cfg.host] = @ + 1]
    /\ lastCheck' = NoCheck
    /\ lastGenerate' = NoGenerate
    /\ UNCHANGED <<variant, activation, debounceTimer, lastPosition, timers, req,
                   document, edits, notifications, outputChannel>>

watcherChecked(host, response) ==
    /\ standaloneChecks[host] > 0
    /\ ~MicrotaskPending
    /\ lastGenerate' = NoGenerate
    /\ checkOllamaStatus(0, response)
    /\ standaloneChecks' = [standaloneChecks EXCEPT ![host] = @ - 1]
    /\ UNCHANGED <<variant, activation, config, debounceTimer, lastPosition, timers, req,
                   document, edits, configChanges, outputChannel>>

----------------------------------------------------------------------------
(* provideInlineCompletionItems, up to the return of the promise *)

provideInlineCompletionItems(position) ==
    LET r == called + 1 IN
    /\ activation = "registered"
    /\ ~MicrotaskPending
    /\ r <= MaxRequests
    /\ position.line < Len(document)
    /\ position.character <= Len(document[position.line + 1])
    /\ LET lineText == document[position.line + 1]
           call == [req[r] EXCEPT !.position = position, !.lineText = lineText]
       IN  IF tooShort(variant, lineText, position)
           THEN /\ req' = [req EXCEPT ![r] = [call EXCEPT !.pc = "rejected",
                                                          !.result = Undefined]]
                /\ UNCHANGED <<timers, lastPosition, debounceTimer>>
           ELSE IF samePosition(lastPosition, position)
           THEN /\ timers' = clearTimeout(timers, debounceTimer)
                /\ req' = [req EXCEPT ![r] = [call EXCEPT !.pc = "suppressed",
                                                          !.result = Undefined]]
                /\ UNCHANGED <<lastPosition, debounceTimer>>
           ELSE /\ timers' = clearTimeout(timers, debounceTimer) \cup {r}
                /\ lastPosition' = position
                /\ debounceTimer' = r
                /\ req' = [req EXCEPT ![r] = [call EXCEPT !.pc = "waiting",
                                                          !.elapsed = 0]]
    /\ lastCheck' = NoCheck
    /\ lastGenerate' = NoGenerate
    /\ UNCHANGED <<variant, activation, config, statusBarItem, document, edits,
                   configChanges, standaloneChecks, notifications,
                   outputChannel>>

\* Mutant: the callback does not look at the token
isCancellationRequestedIgnored(token) == FALSE

\* token.isCancellationRequested, read by the callback when it starts
isCancellationRequested(token) == token

(* The timeout callback, up to its first await *)

timerFired(r) ==
    /\ r \in timers
    /\ ~MicrotaskPending
    /\ timerDue(req[r].elapsed)
    /\ timers' = timers \ {r}
    /\ IF isCancellationRequested(req[r].token)
       THEN /\ req' = [req EXCEPT ![r].pc = "done",
                                  ![r].result = resolve(@, Undefined)]
            /\ UNCHANGED statusBarItem
       ELSE /\ req' = [req EXCEPT ![r].pc = "checking",
                                  ![r].tagsCalls = Append(@, config.host),
                                  ![r].documentAtFire = document]
            /\ statusBarItem' = updateStatusBar(config, "checking...")
    /\ lastCheck' = NoCheck
    /\ lastGenerate' = NoGenerate
    /\ UNCHANGED <<variant, activation, config, debounceTimer, lastPosition, document,
                   edits, configChanges, standaloneChecks, notifications,
                   outputChannel>>

\* Mutant: the result of the check is ignored
proceedsAlways(outcome) == TRUE

\* if (!isOllamaReady) { resolve(undefined); return; }
proceeds(outcome) == outcome = "ready"

(* /api/tags answers the check of request r *)

tagsAnswered(r, response) ==
    /\ req[r].pc = "checking"
    /\ ~MicrotaskPending
    /\ lastGenerate' = NoGenerate
    /\ checkOllamaStatus(r, response)
    /\ LET outcome == checkOutcome(response, config)
           returned == IF outcome = "ready" THEN "true" ELSE "false"
       IN  IF proceeds(outcome)
           THEN req' = [req EXCEPT ![r].pc = "ready", ![r].isOllamaReady = returned]
           ELSE req' = [req EXCEPT ![r].pc = "done", ![r].isOllamaReady = returned,
                                   ![r].result = resolve(@, Undefined)]
    /\ UNCHANGED <<variant, activation, config, debounceTimer, lastPosition, timers,
                   document, edits, configChanges, standaloneChecks, outputChannel>>

(* The callback after a check that returned true, up to the generate request *)

generate(r) ==
    /\ req[r].pc = "ready"
    /\ statusBarItem' = updateStatusBar(config, "generating...")
    /\ outputChannel' = log(outputChannel, r,
                            <<"Generating completion for language", "Context", "Current line">>)
    /\ req' = [req EXCEPT ![r].pc = "generating",
                          ![r].generateCalls = Append(@,
                              [host |-> config.host, model |-> config.model,
                               prompt |-> buildPrompt(variant, document, req[r].lineText,
                                                      req[r].position)])]
    /\ lastCheck' = NoCheck
    /\ lastGenerate' = NoGenerate
    /\ UNCHANGED <<variant, activation, config, debounceTimer, lastPosition, timers,
                   document, edits, configChanges, standaloneChecks, notifications>>

(* /api/generate answers request r: the rest of the callback, its catch included *)

generateAnswered(r, response) ==
    /\ req[r].pc = "generating"
    /\ ~MicrotaskPending
    /\ IF generateFailed(response)
       THEN /\ notifications' = showErrorMessage(notifications, r,
                                    <<"Ollama completion error: ">> \o errorMessage(response))
            /\ outputChannel' = log(outputChannel, r, <<"Error">>)
            /\ statusBarItem' = updateStatusBar(config, "error")
            /\ req' = [req EXCEPT ![r].pc = "done", ![r].result = resolve(@, Undefined)]
       ELSE /\ outputChannel' = log(outputChannel, r, completionLogs(variant, response))
            /\ statusBarItem' = updateStatusBar(config, "ready")
            /\ req' = [req EXCEPT ![r].pc = "done",
                                  ![r].result = resolve(@, completionResult(variant, response,
                                                    req[r].lineText, req[r].position))]
            /\ UNCHANGED notifications
    /\ lastCheck' = NoCheck
    /\ lastGenerate' = [owner |-> r, response |-> response]
    /\ UNCHANGED <<variant, activation, config, debounceTimer, lastPosition, timers,
                   document, edits, configChanges, standaloneChecks>>

----------------------------------------------------------------------------
(* dispose, and what the host does around the provider *)

\* Mutant: dispose releases the widgets and leaves the timeout alone
disposeTimerKept(pending, handle) == pending

\* if (this.debounceTimer) { clearTimeout(this.debounceTimer); }
disposeTimer(pending, handle) ==
    IF handle # 0 THEN clearTimeout(pending, handle) ELSE pending

dispose ==
    /\ activation = "registered"
    /\ ~MicrotaskPending
    /\ timers' = disposeTimer(timers, debounceTimer)
    /\ activation' = "deactivated"
    /\ lastCheck' = NoCheck
    /\ lastGenerate' = NoGenerate
    /\ UNCHANGED <<variant, config, statusBarItem, debounceTimer, lastPosition, req,
                   document, edits, configChanges, standaloneChecks, notifications, outputChannel>>

\* The host sets the cancellation token of a request it has not been answered
cancel(r) ==
    /\ req[r].pc \in {"waiting", "checking", "generating"}
    /\ ~MicrotaskPending
    /\ ~req[r].token
    /\ req' = [req EXCEPT ![r].token = TRUE]
    /\ lastCheck' = NoCheck
    /\ lastGenerate' = NoGenerate
    /\ UNCHANGED <<variant, activation, config, statusBarItem, debounceTimer,
                   lastPosition, timers, document, edits, configChanges,
                   standaloneChecks, notifications, outputChannel>>

\* The user replaces a line of the document
editDocument(line) ==
    /\ activation = "registered"
    /\ ~MicrotaskPending
    /\ edits < MaxEdits
    /\ document[line + 1] # EditedLine
    /\ document' = [document EXCEPT ![line + 1] = EditedLine]
    /\ edits' = edits + 1
    /\ lastCheck' = NoCheck
    /\ lastGenerate' = NoGenerate
    /\ UNCHANGED <<variant, activation, config, statusBarItem, debounceTimer,
                   lastPosition, timers, req, configChanges, standaloneChecks,
                   notifications, outputChannel>>

\* Time passes: every timeout the event loop holds has waited TickMs longer
\* (elapsed saturates at debounceDelay: a due timeout may still fire late)
tick ==
    /\ ~MicrotaskPending
    /\ \E r \in timers : ~timerDue(req[r].elapsed)
    /\ req' = [r \in Requests |->
                 IF r \in timers /\ ~timerDue(req[r].elapsed)
                 THEN [req[r] EXCEPT !.elapsed = @ + TickMs]
                 ELSE req[r]]
    /\ lastCheck' = NoCheck
    /\ lastGenerate' = NoGenerate
    /\ UNCHANGED <<variant, activation, config, statusBarItem, debounceTimer,
                   lastPosition, timers, document, edits, configChanges,
                   standaloneChecks, notifications, outputChannel>>

----------------------------------------------------------------------------

(* The provider with its service: activation, at most `limit` requests, timers,
   answers, dispose *)
ProviderStep(limit) ==
    \/ activateCheck
    \/ \E response \in TagsResponses : activateRegister(response)
    \/ \E position \in Cursors :
          called < limit /\ provideInlineCompletionItems(position)
    \/ \E r \in Requests : timerFired(r)
    \/ \E r \in Requests, response \in TagsResponses : tagsAnswered(r, response)
    \/ \E r \in Requests : generate(r)
    \/ \E r \in Requests, response \in GenerateResponses : generateAnswered(r, response)
    \/ dispose
    \/ tick

Next == ProviderStep(MaxRequests)

Spec == Init /\ [][Next]_vars

(* The provider under a host that cancels requests: at most MaxCancelEvents
   requests and cancellations together *)
NextCancel ==
    \/ ProviderStep(Min(MaxRequests, MaxCancelEvents - cancelled))
    \/ \E r \in Requests :
          called + cancelled < MaxCancelEvents /\ cancel(r)

SpecCancel == Init /\ [][NextCancel]_vars

(* The provider under a host whose configuration changes *)
NextWatcher ==
    \/ ProviderStep(MaxHostEvents - configChanges)
    \/ \E cfg \in Configs :
          called + configChanges < MaxHostEvents /\ onDidChangeConfiguration(cfg)
    \/ \E host \in Hosts, response \in TagsResponses : watcherChecked(host, response)

SpecWatcher == Init /\ [][NextWatcher]_vars

(* The provider under a user who edits the document *)
NextEdit ==
    \/ ProviderStep(MaxRequests)
    \/ \E line \in 0..(Len(InitialDocument) - 1) : editDocument(line)

SpecEdit == Init /\ [][NextEdit]_vars

----------------------------------------------------------------------------
(* What the claims speak of *)

Called(r) == req[r].pc # "idle"

\* The step is a call of provideInlineCompletionItems, which becomes request r
Arrives(r) == req[r].pc = "idle" /\ req'[r].pc # "idle"

\* A timeout is pending, and it was scheduled for position p
PendingFor(p) == debounceTimer \in timers /\ req[debounceTimer].position = p

\* The requests for which a timeout was ever scheduled at position p
Attempts(p) ==
    {r \in Requests : req[r].position = p
                      /\ req[r].pc \in {"waiting", "checking", "ready", "generating", "done"}}

Generating == {r \in Requests : req[r].pc = "generating"}

Contains(seq, x) == \E i \in 1..Len(seq) : seq[i] = x

TagsSucceeded(response) == response.kind = "ok"
ModelListed(response, model) == response.hasModels /\ model \in response.models

CheckReturned == lastCheck.response.kind # "none"
GenerateReturned == lastGenerate.response.kind # "none"

\* The availability check of request r ended in Offline or ModelNotFound
CheckFailed(r) == req[r].isOllamaReady = "false"
\* The generation call of request r failed, and the catch block has run
GenerationFailed(r) == Contains(outputChannel[r], "Error")
Failed(r) == CheckFailed(r) \/ GenerationFailed(r)

----------------------------------------------------------------------------
(* C1: a call whose text before the cursor has fewer than 5 non-whitespace
   characters returns "no suggestion" at once: no timer is scheduled and no
   request to /api/tags or /api/generate is made for it. *)
C1_ShortPrefixRejected ==
    \A r \in Requests :
        (/\ Called(r)
         /\ NonWhitespaceCount(textBeforeCursor(req[r].lineText, req[r].position)) < MinChars)
        => /\ req[r].pc = "rejected"
           /\ req[r].result = Undefined
           /\ r \notin timers
           /\ req[r].tagsCalls = <<>>
           /\ req[r].generateCalls = <<>>

(* C2: when a request that passes the guard arrives at the position of a
   timer that is still pending, the timer of the second request survives:
   after the call, the new request's timeout is the one pending. *)
C2_SecondTimerSurvives ==
    [][\A r \in Requests :
          (Arrives(r) /\ req'[r].pc # "rejected" /\ PendingFor(req'[r].position))
          => (r \in timers' /\ Cardinality(timers') = 1)]_vars

(* C3: a request that repeats the position of a pending timer adds no
   generation attempt: no timeout is scheduled for it, it resolves to "no
   suggestion", and the attempts at that position are at most the one that
   was pending. *)
C3_RepeatAddsNoAttempt ==
    [][\A r \in Requests :
          (Arrives(r) /\ req'[r].pc # "rejected" /\ PendingFor(req'[r].position))
          => /\ r \notin timers'
             /\ req'[r].result = Undefined
             /\ timers' \subseteq timers
             /\ LET Att(p) == {q \in Requests : req'[q].position = p
                                  /\ req'[q].pc \in {"waiting", "checking", "ready",
                                                     "generating", "done"}}
                IN  Att(req'[r].position) = Attempts(req'[r].position)]_vars

\* A request was suppressed at the position of the timer pending before it
C3_Witness ==
    \E r \in Requests :
        /\ r > 1
        /\ req[r].pc = "suppressed"
        /\ req[r - 1].pc = "waiting"
        /\ req[r - 1].position = req[r].position

(* C4: the event loop never holds more than one debounce timeout of the
   provider. *)
C4_OneTimerPending == Cardinality(timers) <= 1

\* A second timeout was scheduled while the first was pending, and replaced it
C4_Witness ==
    \E r \in Requests :
        /\ r > 1
        /\ r \in timers
        /\ req[r - 1].pc = "waiting"
        /\ req[r - 1].elapsed < debounceDelay

(* C5: at most one /api/generate call is outstanding at any time. *)
C5_OneGenerationOutstanding == Cardinality(Generating) <= 1

(* C6: /api/generate is called only by a pipeline whose own availability
   check returned Ready; when the check ends in ModelNotFound or Offline the
   status shows that outcome, no /api/generate call is made and the request
   resolves to "no suggestion". *)
C6_GenerateOnlyAfterReady ==
    \A r \in Requests :
        /\ req[r].generateCalls # <<>>
           => (req[r].isOllamaReady = "true" /\ Len(req[r].tagsCalls) = 1)
        /\ req[r].pc \in {"ready", "generating"} => req[r].isOllamaReady = "true"
        /\ CheckFailed(r)
           => (req[r].generateCalls = <<>> /\ req[r].pc = "done"
               /\ req[r].result = Undefined)
        /\ (CheckReturned /\ lastCheck.owner = r
            /\ ~(TagsSucceeded(lastCheck.response)
                 /\ ModelListed(lastCheck.response, lastCheck.model)))
           => /\ status = (IF TagsSucceeded(lastCheck.response)
                           THEN "model not found" ELSE "offline")
              /\ CheckFailed(r)

\* The check of a request has just ended in ModelNotFound
C6_Witness ==
    /\ CheckReturned
    /\ lastCheck.owner > 0
    /\ TagsSucceeded(lastCheck.response)
    /\ status = "model not found"
    /\ req[lastCheck.owner].result = Undefined

(* C7: when the /api/generate call of a request fails (transport error or
   non-success HTTP response), the request resolves to "no suggestion", the
   status becomes Error and exactly one notification is shown for the
   request; for an HTTP failure it carries the status text and the body. *)
C7_GenerationFailure ==
    \A r \in Requests :
        (/\ GenerateReturned
         /\ lastGenerate.owner = r
         /\ lastGenerate.response.kind \in {"transport_error", "http_error"})
        => /\ req[r].result = Undefined
           /\ req[r].pc = "done"
           /\ status = "error"
           /\ Len(notifications[r]) = 1
           /\ lastGenerate.response.kind = "http_error"
              => /\ Contains(notifications[r][1], lastGenerate.response.statusText)
                 /\ \A i \in 1..Len(lastGenerate.response.body) :
                        Contains(notifications[r][1], lastGenerate.response.body[i])

\* /api/generate has just answered a request with an HTTP error
C7_Witness ==
    /\ GenerateReturned
    /\ lastGenerate.response.kind = "http_error"
    /\ status = "error"
    /\ Len(notifications[lastGenerate.owner]) = 1

(* C8: checkOllamaStatus returns true, with status "ready" and no
   notification, exactly when the tags request succeeds and the configured
   model is among the names returned; with a successful request and the name
   absent it returns false with status "model not found" and one
   notification; with a failed request or a non-success answer it returns
   false with status "offline" and one notification. *)
C8_CheckOutcome ==
    CheckReturned =>
        LET succeeded == TagsSucceeded(lastCheck.response)
            listed == ModelListed(lastCheck.response, config.model)
        IN  /\ lastCheck.result <=> (succeeded /\ listed)
            /\ (succeeded /\ listed) => (status = "ready" /\ lastCheck.notified = 0)
            /\ (succeeded /\ ~listed)
               => (status = "model not found" /\ lastCheck.notified = 1)
            /\ ~succeeded => (status = "offline" /\ lastCheck.notified = 1)

\* A check after a configuration change has just found the new model missing
C8_Witness ==
    /\ CheckReturned
    /\ configChanges > 0
    /\ config # DefaultConfig
    /\ TagsSucceeded(lastCheck.response)
    /\ ~lastCheck.result
    /\ lastCheck.notified = 1

(* C9: every failure path of a request (check Offline, check ModelNotFound,
   generation failure) ends with a status update, a log entry and the request
   resolved to "no suggestion". *)
C9_FailureLeavesLogEntry ==
    \A r \in Requests :
        Failed(r) => /\ req[r].result = Undefined
                     /\ req[r].pc = "done"
                     /\ outputChannel[r] # <<>>

(* C10: once a request has failed, the next request that passes the guard
   schedules a new debounce timer, whatever its position. *)
C10_FreshAttemptAfterFailure ==
    [][\A r \in Requests :
          (/\ Arrives(r)
           /\ req'[r].pc # "rejected"
           /\ r > 1
           /\ Failed(r - 1))
          => (r \in timers' /\ req'[r].pc = "waiting")]_vars

(* C11: when the timeout of a request fires and the request's cancellation
   token is already set, the request resolves to "no suggestion" with no
   availability check, no generation call, no status change and no
   notification.  The token is read at that moment only: a request whose
   timeout fired with the token unset is checked, and the answers of
   /api/tags and /api/generate are handled the same whether or not the token
   has been set since. *)
C11_CancelledAtFire ==
    [][\A r \in Requests :
          /\ (req[r].pc = "waiting" /\ req'[r].pc # "waiting")
             => IF req[r].token
                THEN /\ req'[r].pc = "done"
                     /\ req'[r].result = Undefined
                     /\ req'[r].tagsCalls = <<>>
                     /\ req'[r].generateCalls = <<>>
                     /\ statusBarItem' = statusBarItem
                     /\ notifications' = notifications
                ELSE /\ req'[r].pc = "checking"
                     /\ Len(req'[r].tagsCalls) = 1
          /\ (req[r].pc = "checking" /\ req'[r].pc # "checking")
             => req'[r].pc = (IF lastCheck'.result THEN "ready" ELSE "done")
          /\ (req[r].pc = "ready" /\ req'[r].pc # "ready")
             => (req'[r].pc = "generating" /\ Len(req'[r].generateCalls) = 1)
          /\ (req[r].pc = "generating" /\ req'[r].pc # "generating")
             => req'[r].result =
                   (IF generateFailed(lastGenerate'.response) THEN Undefined
                    ELSE completionResult(variant, lastGenerate'.response,
                                          req[r].lineText, req[r].position))]_vars

\* The timeout of a cancelled request has fired: the request is resolved
\* without any call, and the status is still the one activation left
C11_Witness ==
    \E r \in Requests :
        /\ req[r].token
        /\ req[r].pc = "done"
        /\ req[r].result = Undefined
        /\ req[r].tagsCalls = <<>>
        /\ status # "checking..."

\* /api/generate has just answered request r with a body that holds a response
Answered(r) ==
    /\ GenerateReturned
    /\ lastGenerate.owner = r
    /\ lastGenerate.response.kind = "ok"
    /\ lastGenerate.response.hasResponse

BeforeCursor(r) == textBeforeCursor(req[r].lineText, req[r].position)

\* The raw answer after trimming, quote stripping and first-line truncation
Truncated(raw) == firstLine(stripQuotes(trim(raw)))

\* The five cleaning steps in the order the specification gives them
FiveSteps(raw, beforeCursor) == trim(removeEcho(Truncated(raw), beforeCursor))

(* C12: every suggestion returned to the editor is non-empty and anchored at
   the cursor position of its request with a zero-length range: start = end =
   (position.line, position.character). *)
C12_AnchoredAtCursor ==
    \A r \in Requests :
        req[r].result.kind = "items"
        => /\ req[r].result.insertText # <<>>
           /\ req[r].result.start = req[r].position
           /\ req[r].result.end = req[r].position

(* C13: the suggestion handed to the editor is the raw output after the five
   cleaning steps in their stated order (trim, strip quotes and backticks,
   first line, remove the echoed text before the cursor, trim), and an empty
   result yields "no suggestion". *)
C13_FiveCleaningSteps ==
    \A r \in Requests :
        Answered(r)
        => LET expected == FiveSteps(lastGenerate.response.response, BeforeCursor(r))
           IN  IF expected = <<>>
               THEN req[r].result = Undefined
               ELSE /\ req[r].result.kind = "items"
                    /\ req[r].result.insertText = expected

(* C14: cleaning is idempotent: the transform applied to a suggestion it has
   produced, with the same text before the cursor, gives that suggestion. *)
C14_CleaningIdempotent ==
    \A r \in Requests :
        req[r].result.kind = "items"
        => suggestionText(variant, req[r].result.insertText, BeforeCursor(r))
              = req[r].result.insertText

(* C15: when the raw output, after trimming, quote stripping and first-line
   truncation, is the text before the cursor followed by further text, the
   returned suggestion does not begin with the text before the cursor. *)
C15_EchoRemoved ==
    \A r \in Requests :
        (/\ Answered(r)
         /\ startsWith(Truncated(lastGenerate.response.response), BeforeCursor(r))
         /\ Len(Truncated(lastGenerate.response.response)) > Len(BeforeCursor(r))
         /\ req[r].result.kind = "items")
        => ~startsWith(req[r].result.insertText, BeforeCursor(r))

\* The step is the call of dispose
Disposes == activation = "registered" /\ activation' = "deactivated"

InFlight == {r \in Requests : req[r].pc \in {"checking", "generating"}}

(* C16: dispose clears the pending debounce timeout in the same step, and
   once it has returned no timeout fires and no request made before it
   starts an availability check or a generation call. *)
C16_NothingStartsAfterDispose ==
    [][/\ Disposes => timers' = {}
       /\ activation = "deactivated"
          => /\ timers' = {}
             /\ \A r \in Requests :
                    /\ req'[r].tagsCalls = req[r].tagsCalls
                    /\ req'[r].generateCalls = req[r].generateCalls]_vars

(* C16, amended: dispose clears the pending debounce timeout in the same
   step: once it has returned the event loop holds no timeout of the
   provider, so a request that was waiting for its timeout never starts an
   availability check or a generation call.  Dispose does not wait for the
   network: it returns while calls are in flight and leaves their requests
   as they are (a check in flight may still be followed by its generation
   call). *)
C16_DisposeClearsTimer ==
    [][/\ Disposes => (timers' = {} /\ req' = req)
       /\ activation = "deactivated"
          => /\ timers' = {}
             /\ \A r \in Requests :
                    req[r].pc = "waiting"
                    => (req'[r] = req[r] /\ req[r].tagsCalls = <<>>
                        /\ req[r].generateCalls = <<>>)]_vars

\* After dispose: the timeout of a waiting request is gone although it was
\* due, and the call of another request is still in flight
C16_Witness ==
    /\ activation = "deactivated"
    /\ \E r \in Requests :
          /\ req[r].pc = "waiting"
          /\ timerDue(req[r].elapsed)
          /\ debounceTimer = r
          /\ r \notin timers
    /\ InFlight # {}

\* The transitions of ServiceStatus the state machine lists
ListedTransition(from, to) ==
    \/ to = "checking..."
    \/ from = "checking..." /\ to \in {"ready", "model not found", "offline"}
    \/ from = "ready" /\ to = "generating..."
    \/ from = "generating..." /\ to \in {"ready", "error"}

(* C17: every change of the status is one of the listed transitions: any
   state to Checking; Checking to Ready, ModelNotFound or Offline; Ready to
   Generating; Generating to Ready or Error.  In particular the status never
   goes from Offline, ModelNotFound or Error directly to Ready or
   Generating. *)
C17_ListedTransitions ==
    [][statusBarItem'.text # statusBarItem.text
       => ListedTransition(statusBarItem.text, statusBarItem'.text)]_vars

\* The step runs the timeout callback of request r
Fires(r) == req[r].pc = "waiting" /\ req'[r].pc # "waiting"

\* Request q came after request r and passed the length guard
PassedGuardAfter(r, q) == q > r /\ req[q].pc \notin {"idle", "rejected"}

(* C18: in a burst of guard-passing requests at different positions, each
   less than 500 ms after the one before, a request that arrives while the
   timeout of its predecessor is not yet due takes that timeout off the event
   loop, and a timeout taken off never fires: only the last one does.  A
   timeout fires, and with it an availability check starts, only when at
   least 500 ms have passed since its request scheduled it and no request has
   passed the guard since. *)
C18_Debounce ==
    [][\A r \in Requests :
          /\ (Arrives(r) /\ req'[r].pc = "waiting")
             => /\ timers' = {r}
                /\ req'[r].elapsed = 0
          /\ (req[r].pc = "waiting" /\ r \notin timers) => req'[r].pc = "waiting"
          /\ Fires(r)
             => /\ req[r].elapsed >= debounceDelay
                /\ r \in timers
                /\ \A q \in Requests : ~PassedGuardAfter(r, q)
          /\ Len(req'[r].tagsCalls) > Len(req[r].tagsCalls) => Fires(r)]_vars

\* A burst of two: the second request came 250 ms after the first, at another
\* position; the first timeout never fired, the second fired after 500 ms
C18_Witness ==
    \E r \in Requests :
        /\ r > 1
        /\ req[r - 1].pc = "waiting"
        /\ req[r - 1].elapsed > 0
        /\ req[r - 1].elapsed < debounceDelay
        /\ req[r - 1].position # req[r].position
        /\ req[r].pc = "checking"
        /\ req[r].elapsed >= debounceDelay

(* C19: the prompt is built from the document as it is when the timeout
   fires: preceding lines, current line and following lines are those of the
   document at that moment, so an edit made between the scheduling of the
   request and the firing of its timeout shows in all of them. *)
C19_ContextCapturedAtFire ==
    \A r \in Requests :
        req[r].generateCalls # <<>>
        => req[r].generateCalls[1].prompt
              = buildPrompt(variant, req[r].documentAtFire,
                            req[r].documentAtFire[req[r].position.line + 1],
                            req[r].position)

\* The lines first..last of a document (zero-based, in document order)
LinesOf(doc, first, last) == [i \in 1..(last - first + 1) |-> doc[first + i]]

\* What a prompt holds between the head and the tail of its template
ContextOf(prompt) == SubSeq(prompt, 4, Len(prompt) - 1)

(* C20: for a cursor on line L of a document whose last line is N, the
   context given to the model is the lines max(0, L-10) .. L-1, then the
   whole current line (not cut at the cursor), then the lines L+1 ..
   min(N, L+10), each group in document order. *)
C20_ContextWindow ==
    \A r \in Requests :
        req[r].generateCalls # <<>>
        => LET L == req[r].position.line
               N == Len(document) - 1
           IN  ContextOf(req[r].generateCalls[1].prompt)
                  = join(LinesOf(document, Max(0, L - ContextLines), L - 1))
                    \o <<"\n">> \o document[L + 1] \o <<"\n">>
                    \o join(LinesOf(document, L + 1, Min(N, L + ContextLines)))

\* The answer of /api/generate is a success whose body cannot be parsed, has
\* no response field, or has an empty response text
MalformedOrEmpty(response) ==
    \/ response.kind = "bad_json"
    \/ response.kind = "ok" /\ ~response.hasResponse
    \/ response.kind = "ok" /\ response.hasResponse /\ response.response = <<>>

(* C21: when /api/generate answers with success but the body is malformed
   (not parseable, or without a response field) or the response text is
   empty, the request resolves to "no suggestion", no error notification is
   shown and the status is Ready, not Error. *)
C21_MalformedDegrades ==
    \A r \in Requests :
        (/\ GenerateReturned
         /\ lastGenerate.owner = r
         /\ MalformedOrEmpty(lastGenerate.response))
        => /\ req[r].result = Undefined
           /\ status = "ready"
           /\ notifications[r] = <<>>

\* Nothing of the provider is left to run: no timeout, no call in flight
Settled ==
    /\ timers = {}
    /\ \A r \in Requests : req[r].pc \notin {"checking", "ready", "generating"}

(* C22: every call of provideInlineCompletionItems resolves, with a
   suggestion or with "no suggestion", once the timeouts have run and the
   network has answered; also a call whose timeout was cleared by a later
   call or by dispose. *)
C22_EveryCallResolves ==
    Settled => \A r \in Requests : Called(r) => req[r].result.kind # "pending"

\* No callback has started without finishing and no check is in flight
Quiescent ==
    /\ activation # "checking"
    /\ \A h \in Hosts : standaloneChecks[h] = 0
    /\ \A r \in Requests : req[r].pc \notin {"checking", "ready", "generating"}

(* C23: whenever the provider is quiescent (no timeout callback has started
   without finishing, no availability check and no generation call is in
   flight), the status is Starting, Ready, ModelNotFound, Offline or Error,
   never Checking or Generating. *)
C23_QuiescentStatus ==
    Quiescent => status \in {"starting...", "ready", "model not found", "offline", "error"}

\* Quiescent after a request whose check overlapped a configuration change
\* (it generated on another host than it had checked), the check of the
\* change having failed last
C23_Witness ==
    /\ Quiescent
    /\ configChanges > 0
    /\ \E r \in Requests :
          /\ req[r].pc = "done"
          /\ req[r].generateCalls # <<>>
          /\ req[r].generateCalls[1].host # req[r].tagsCalls[1]
    /\ status = "offline"

(* C24: the /api/generate call of a request goes to the host that the
   availability check of that request contacted, and names the model that
   check found present; also when the configuration changes while the check
   is in flight. *)
C24_GenerateWhereChecked ==
    [][\A r \in Requests :
          Len(req'[r].generateCalls) > Len(req[r].generateCalls)
          => /\ req'[r].generateCalls[1].host = req[r].tagsCalls[1]
             /\ lastCheck.owner = r
             /\ req'[r].generateCalls[1].model = lastCheck.model]_vars

====
